---- MODULE Spec2Model ----
(***************************************************************************)
(* Model of src/main.py (AmazonBookLinkGen): the rate-limited fetcher      *)
(* make_request with its backoff decorator, the per-record resolution      *)
(* process_book, the search fallback get_first_product_link and the batch  *)
(* driver process_books_csv.                                               *)
(*                                                                         *)
(* Text is a sequence of one-character strings.  A URL is a sequence whose *)
(* first element is a token standing for the fixed prefix of the URL and   *)
(* whose remaining elements are characters.                                *)
(***************************************************************************)
EXTENDS Integers, Sequences, FiniteSets, TLC

(***************************************************************************)
(* Bounds of the model.                                                    *)
(***************************************************************************)
\* number of rows of the input table
NumRecords == 2
\* longest run of digits is_valid_isbn is tried on
MaxIsbnLen == 14

(***************************************************************************)
(* Program constants.                                                      *)
(***************************************************************************)
\* max_tries of the backoff decorator
MaxTries == 5
\* sleep(random.uniform(2, 7))
PaceMin == 2
PaceMax == 7
\* sleep(random.uniform(10, 15))
OverloadMin == 10
OverloadMax == 15

(***************************************************************************)
(* Text helpers.                                                           *)
(***************************************************************************)
\* pandas' missing value; no text equals it
NaN == <<"NaN">>

isna(x) == x = NaN

Digits == {"0", "1", "2", "3", "4", "5", "6", "7", "8", "9"}

UpperCase == {"A", "B", "X", "T", "H"}

\* the characters \s matches and str.strip() removes
Whitespace == {" ", "\n", "\t"}

RECURSIVE LStrip(_)
LStrip(s) ==
    IF s = <<>> THEN <<>>
    ELSE IF Head(s) \in Whitespace THEN LStrip(Tail(s)) ELSE s

RECURSIVE RStrip(_)
RStrip(s) ==
    IF s = <<>> THEN <<>>
    ELSE IF s[Len(s)] \in Whitespace THEN RStrip(SubSeq(s, 1, Len(s) - 1)) ELSE s

\* str.strip()
strip(s) == RStrip(LStrip(s))

\* re.sub(r'\s+', ' ', s)
RECURSIVE CollapseSpaces(_)
CollapseSpaces(s) ==
    IF s = <<>> THEN <<>>
    ELSE IF Head(s) \in Whitespace
         THEN <<" ">> \o CollapseSpaces(LStrip(s))
         ELSE <<Head(s)>> \o CollapseSpaces(Tail(s))

\* re.sub(r'[-\s]', '', s)
RECURSIVE RemoveHyphensSpaces(_)
RemoveHyphensSpaces(s) ==
    IF s = <<>> THEN <<>>
    ELSE IF Head(s) = "-" \/ Head(s) \in Whitespace
         THEN RemoveHyphensSpaces(Tail(s))
         ELSE <<Head(s)>> \o RemoveHyphensSpaces(Tail(s))

\* str.lower() on one character
LowerChar(c) ==
    CASE c = "A" -> "a"
      [] c = "B" -> "b"
      [] c = "X" -> "x"
      [] c = "T" -> "t"
      [] c = "H" -> "h"
      [] OTHER -> c

lower(s) == [i \in 1..Len(s) |-> LowerChar(s[i])]

endswith(s, suffix) ==
    /\ Len(s) >= Len(suffix)
    /\ SubSeq(s, Len(s) - Len(suffix) + 1, Len(s)) = suffix

\* the Python test  sub in s
Contains(s, sub) ==
    \E i \in 1..(Len(s) - Len(sub) + 1) : SubSeq(s, i, i + Len(sub) - 1) = sub

\* " ".join(parts)
RECURSIVE Join(_)
Join(parts) ==
    IF parts = <<>> THEN <<>>
    ELSE IF Len(parts) = 1 THEN parts[1]
    ELSE parts[1] \o <<" ">> \o Join(Tail(parts))

\* urllib.parse.quote on one character: letters, digits and _.-~/ stay
QuoteChar(c) ==
    CASE c = " " -> "%20"
      [] c = "\n" -> "%0A"
      [] c = "\t" -> "%09"
      [] OTHER -> c

quote(s) == [i \in 1..Len(s) |-> QuoteChar(s[i])]

(***************************************************************************)
(* Pure functions of the program.                                          *)
(***************************************************************************)
clean_text(text) ==
    IF isna(text) THEN <<>> ELSE CollapseSpaces(strip(text))

\* variant: the check character is matched without regard to case
is_valid_isbn_ignorecase(isbn) ==
    LET s == RemoveHyphensSpaces(isbn) IN
    IF Len(s) = 10
    THEN /\ \A i \in 1..9 : s[i] \in Digits
         /\ s[10] \in Digits \cup {"X", "x"}
    ELSE IF Len(s) = 13
    THEN \A i \in 1..13 : s[i] \in Digits
    ELSE FALSE

is_valid_isbn(isbn) ==
    LET s == RemoveHyphensSpaces(isbn) IN
    IF Len(s) = 10
    THEN /\ \A i \in 1..9 : s[i] \in Digits
         /\ s[10] \in Digits \cup {"X"}
    ELSE IF Len(s) = 13
    THEN \A i \in 1..13 : s[i] \in Digits
    ELSE FALSE

\* a column value counts when it is present and not blank
Present(v) == ~isna(v) /\ strip(v) # <<>>

\* variant: the edition joins the query whatever its ending
SearchPartsAnyEdition(row) ==
    (IF Present(row.Title) THEN <<clean_text(row.Title)>> ELSE <<>>)
    \o (IF Present(row.Author) THEN <<clean_text(row.Author)>> ELSE <<>>)
    \o (IF Present(row.Yr) THEN <<row.Yr>> ELSE <<>>)
    \o (IF Present(row.Ed)
        THEN <<strip(row.Ed) \o <<" ", "e", "d", "i", "t", "i", "o", "n">>>>
        ELSE <<>>)

\* variant: a missing title goes through str() and joins the query as "nan"
SearchPartsPlaceholder(row) ==
    (IF isna(row.Title) THEN <<<<"n", "a", "n">>>>
     ELSE IF strip(row.Title) # <<>> THEN <<clean_text(row.Title)>> ELSE <<>>)
    \o (IF Present(row.Author) THEN <<clean_text(row.Author)>> ELSE <<>>)
    \o (IF Present(row.Yr) THEN <<row.Yr>> ELSE <<>>)
    \o (IF Present(row.Ed) /\ endswith(lower(strip(row.Ed)), <<"t", "h">>)
        THEN <<strip(row.Ed) \o <<" ", "e", "d", "i", "t", "i", "o", "n">>>>
        ELSE <<>>)

SearchParts(row) ==
    (IF Present(row.Title) THEN <<clean_text(row.Title)>> ELSE <<>>)
    \o (IF Present(row.Author) THEN <<clean_text(row.Author)>> ELSE <<>>)
    \o (IF Present(row.Yr) THEN <<row.Yr>> ELSE <<>>)
    \o (IF Present(row.Ed) /\ endswith(lower(strip(row.Ed)), <<"t", "h">>)
        THEN <<strip(row.Ed) \o <<" ", "e", "d", "i", "t", "i", "o", "n">>>>
        ELSE <<>>)

SearchPrefix == "https://www.amazon.com/s?k="
SearchSuffix == "&i=stripbooks"
ProductPrefix == "https://www.amazon.com/dp/"

\* "" when no part was collected
create_search_url(row) ==
    IF SearchParts(row) = <<>> THEN <<>>
    ELSE <<SearchPrefix>> \o quote(Join(SearchParts(row))) \o <<SearchSuffix>>

\* f"https://www.amazon.com/dp/{isbn}"
DirectUrl(row) == <<ProductPrefix>> \o strip(row.UPC)

(***************************************************************************)
(* Result extraction (the loop of get_first_product_link).                 *)
(***************************************************************************)
\* the product-path markers
DpMarker == <<"/", "d", "p", "/">>
GpMarker == <<"/", "g", "p", "/", "p", "r", "o", "d", "u", "c", "t", "/">>

\* [A-Z0-9]
IdChars == UpperCase \cup Digits

\* the group (2) of a match of /(dp|gp/product)/([A-Z0-9]{10}) starting with
\* the marker at position i of href
IdAt(href, marker, i) ==
    LET from == i + Len(marker) IN
    IF /\ i + Len(marker) - 1 <= Len(href)
       /\ SubSeq(href, i, i + Len(marker) - 1) = marker
       /\ from + 9 <= Len(href)
       /\ \A j \in from..(from + 9) : href[j] \in IdChars
    THEN SubSeq(href, from, from + 9)
    ELSE <<>>

MatchAt(href, i) ==
    IF IdAt(href, DpMarker, i) # <<>> THEN IdAt(href, DpMarker, i)
    ELSE IdAt(href, GpMarker, i)

\* re.search: the leftmost match, <<>> when there is none
ProductId(href) ==
    LET hits == {i \in 1..Len(href) : MatchAt(href, i) # <<>>} IN
    IF hits = {} THEN <<>>
    ELSE MatchAt(href, CHOOSE i \in hits : \A j \in hits : i <= j)

\* lines 121-126 for one link: the canonical link, <<>> when the href is skipped
LinkOf(href) ==
    IF (Contains(href, DpMarker) \/ Contains(href, GpMarker)) /\ ProductId(href) # <<>>
    THEN <<ProductPrefix>> \o ProductId(href)
    ELSE <<>>

\* the inner loop over the links one selector yields
RECURSIVE FirstLink(_)
FirstLink(hrefs) ==
    IF hrefs = <<>> THEN <<>>
    ELSE IF LinkOf(Head(hrefs)) # <<>> THEN LinkOf(Head(hrefs))
    ELSE FirstLink(Tail(hrefs))

\* variant: the first selector that yields any link decides
RECURSIVE ExtractFromFirstYielding(_)
ExtractFromFirstYielding(body) ==
    IF body = <<>> THEN <<>>
    ELSE IF Head(body) # <<>> THEN FirstLink(Head(body))
    ELSE ExtractFromFirstYielding(Tail(body))

\* the outer loop over the selectors; body[k] is what selector k yields
RECURSIVE ExtractFrom(_)
ExtractFrom(body) ==
    IF body = <<>> THEN <<>>
    ELSE IF FirstLink(Head(body)) # <<>> THEN FirstLink(Head(body))
    ELSE ExtractFrom(Tail(body))

(***************************************************************************)
(* Inputs of the model: rows of the table, final URLs of the direct        *)
(* request, result pages of the search request.                            *)
(***************************************************************************)
Isbn10 == <<"0", "1", "3", "4", "6", "8", "5", "9", "9", "7">>
Isbn10Hyphens == <<"0", "-", "1", "3", "-", "4", "6", "8", "5", "9", "9", "-", "7">>
BadUpc == <<"1", "2", "3", "4", "5">>
TitleText == <<" ", "A", "b", " ", " ", "c">>
Blank == <<" ", " ">>
Ed4th == <<"4", "T", "h">>
Ed2nd == <<"2", "n", "d">>

Row(title, author, yr, ed, upc) ==
    [Title |-> title, Author |-> author, Yr |-> yr, Ed |-> ed, UPC |-> upc]

Rows ==
    { Row(NaN, NaN, NaN, NaN, NaN),
      Row(Blank, NaN, NaN, Ed2nd, Isbn10),
      Row(TitleText, NaN, NaN, NaN, BadUpc),
      Row(NaN, NaN, NaN, Ed4th, Isbn10Hyphens) }

Site == "https://www.amazon.com"

FinalUrls ==
    { <<Site>> \o DpMarker \o Isbn10,
      <<Site>> \o GpMarker \o Isbn10,
      <<Site, "/", "x", "d", "p", "/", "1">>,
      <<Site, "/", "e", "r", "r">> }

ProductHref == <<"/", "A", "b">> \o DpMarker \o <<"B", "0", "0", "0", "0", "0", "0", "0", "0", "1">>
GpHref == GpMarker \o <<"B", "0", "0", "0", "0", "0", "0", "0", "0", "2">>
ShortIdHref == DpMarker \o <<"B", "0", "0">>
OtherHref == <<"/", "s">>

Bodies ==
    { <<<<>>, <<>>, <<>>, <<>>, <<>>>>,
      <<<<OtherHref, ProductHref>>, <<>>, <<>>, <<>>, <<>>>>,
      <<<<OtherHref, ShortIdHref>>, <<>>, <<GpHref>>, <<>>, <<>>>>,
      <<<<>>, <<ShortIdHref>>, <<>>, <<>>, <<OtherHref>>>> }

Statuses == {200, 404, 429, 500, 503}

NoResp == [status |-> 0, url |-> <<>>, body |-> <<>>]

\* what session.get can return for a request of the given kind
Responses(kind) ==
    IF kind = "direct"
    THEN {[status |-> 200, url |-> u, body |-> <<>>] : u \in FinalUrls}
         \cup {[status |-> st, url |-> <<Site, "/", "e", "r", "r">>, body |-> <<>>] :
                 st \in Statuses \ {200}}
    ELSE {[status |-> 200, url |-> <<Site, "/", "s">>, body |-> b] : b \in Bodies}
         \cup {[status |-> st, url |-> <<Site, "/", "s">>, body |-> <<>>] :
                 st \in Statuses \ {200}}

(***************************************************************************)
(* State.                                                                  *)
(***************************************************************************)
VARIABLES
    batch,      \* process_books_csv: "start", "loaded", "apply", "saved", "failed"
    df,         \* the rows read from the input file
    links,      \* the values process_book has returned so far, in row order
    idx,        \* the row df.apply is at (1-based)
    pc,         \* process_book: "idle", "TryIdentifier", "DirectFetch",
                \* "TrySearch", "SearchFetch"
    fpc,        \* make_request: "idle", "pace", "agent", "get", "overload",
                \* "backoff", "returned", "raised"
    tries,      \* attempts of the running make_request call started so far
    gets,       \* session.get calls of the running make_request call
    overloads,  \* 503 responses the running make_request call has received
    resp,       \* the response of the last session.get of the call
    outcome,    \* how the last attempt ended: "none", "exception", "overload", "response"
    slept,      \* the sleeps of the current attempt, 0 where none happened
    owner,      \* the row the running make_request call was made for, 0 if none
    issued,     \* kinds of request sent for the row at hand (the last row once it is done)
    gaveUp,     \* kinds of request of that row whose make_request call raised
    via,        \* how the link of the last finished row was produced
    output,     \* the rows of the output file, <<>> while it is not written
    writes,     \* number of times the output file was written
    call,       \* a function of the program called on its own: its name and argument
    ret         \* what that call returned, once it has

vars == <<batch, df, links, idx, pc, fpc, tries, gets, overloads, resp, outcome, slept,
          owner, issued, gaveUp, via, output, writes, call, ret>>

fetchVars == <<fpc, tries, gets, overloads, resp, outcome, slept, owner>>
rowVars == <<links, idx, pc, via>>
fileVars == <<batch, df, output, writes>>
pureVars == <<call, ret>>
batchVars == <<batch, df, links, idx, pc, fpc, tries, gets, overloads, resp, outcome, slept,
               owner, issued, gaveUp, via, output, writes>>

NoCall == [fn |-> "none", arg |-> <<>>]
NoRet == [done |-> FALSE, value |-> <<>>]

NoSleep == [pace |-> 0, overload |-> 0]

Init ==
    /\ batch = "start"
    /\ df = <<>>
    /\ links = <<>>
    /\ idx = 1
    /\ pc = "idle"
    /\ fpc = "idle"
    /\ tries = 0
    /\ gets = 0
    /\ overloads = 0
    /\ resp = NoResp
    /\ outcome = "none"
    /\ slept = NoSleep
    /\ owner = 0
    /\ issued = {}
    /\ gaveUp = {}
    /\ via = "none"
    /\ output = <<>>
    /\ writes = 0
    /\ call = NoCall
    /\ ret = NoRet

(***************************************************************************)
(* make_request under backoff.on_exception(backoff.expo, ..., max_tries=5) *)
(***************************************************************************)
Kind == IF pc = "DirectFetch" THEN "direct" ELSE "search"

\* variant: the decorator allows one attempt more
max_tries_exceeded_late(t) == t = MaxTries + 1

\* the decorator gives up when the failed attempt was the max_tries-th
max_tries_exceeded(t) == t = MaxTries

\* an attempt raised: the decorator re-raises or waits
AfterException(t) == IF max_tries_exceeded(t) THEN "raised" ELSE "backoff"

\* variant: every error status is taken for an overload
IsOverloadAnyError(status) == status >= 400

\* variant: a rate-limit status is retried like an overload
IsOverloadOrRateLimit(status) == status \in {429, 503}

\* line 62
IsOverload(status) == status = 503

\* the call of make_request: the first attempt is about to start
StartCall ==
    /\ fpc' = "pace"
    /\ tries' = 1
    /\ gets' = 0
    /\ overloads' = 0
    /\ resp' = NoResp
    /\ outcome' = "none"
    /\ slept' = NoSleep
    /\ owner' = idx

\* the state of make_request once its caller has taken the result
EndCall ==
    /\ fpc' = "idle"
    /\ tries' = 0
    /\ gets' = 0
    /\ overloads' = 0
    /\ resp' = NoResp
    /\ outcome' = "none"
    /\ slept' = NoSleep
    /\ owner' = 0

\* line 54: sleep(random.uniform(2, 7))
Pace ==
    /\ fpc = "pace"
    /\ \E d \in {PaceMin, PaceMax} : slept' = [slept EXCEPT !.pace = d]
    /\ fpc' = "agent"
    /\ UNCHANGED <<tries, gets, overloads, resp, outcome, issued, gaveUp, owner>>
    /\ UNCHANGED rowVars
    /\ UNCHANGED fileVars
    /\ UNCHANGED pureVars

\* line 57: session.headers.update({'User-Agent': UserAgent().random})
UpdateAgent ==
    /\ fpc = "agent"
    /\ fpc' = "get"
    /\ UNCHANGED <<tries, gets, overloads, resp, outcome, slept, issued, gaveUp, owner>>
    /\ UNCHANGED rowVars
    /\ UNCHANGED fileVars
    /\ UNCHANGED pureVars

\* line 57 raising: UserAgent() produces no agent string
UpdateAgentRaises ==
    /\ fpc = "agent"
    /\ outcome' = "exception"
    /\ fpc' = AfterException(tries)
    /\ UNCHANGED <<tries, gets, overloads, resp, slept, issued, gaveUp, owner>>
    /\ UNCHANGED rowVars
    /\ UNCHANGED fileVars
    /\ UNCHANGED pureVars

\* line 59 raising: connection error or timeout
GetRaises ==
    /\ fpc = "get"
    /\ gets' = gets + 1
    /\ issued' = issued \cup {Kind}
    /\ outcome' = "exception"
    /\ fpc' = AfterException(tries)
    /\ UNCHANGED <<tries, overloads, resp, slept, gaveUp, owner>>
    /\ UNCHANGED rowVars
    /\ UNCHANGED fileVars
    /\ UNCHANGED pureVars

\* lines 59-67: the response arrives; a 503 goes on to the longer sleep
Get ==
    /\ fpc = "get"
    /\ gets' = gets + 1
    /\ issued' = issued \cup {Kind}
    /\ \E r \in Responses(Kind) :
         /\ resp' = r
         /\ IF IsOverload(r.status)
            THEN fpc' = "overload" /\ outcome' = "overload" /\ overloads' = overloads + 1
            ELSE fpc' = "returned" /\ outcome' = "response" /\ overloads' = overloads
    /\ UNCHANGED <<tries, slept, gaveUp, owner>>
    /\ UNCHANGED rowVars
    /\ UNCHANGED fileVars
    /\ UNCHANGED pureVars

\* variant: the 503 raises at once, without the longer sleep
OverloadPauseSkipped ==
    /\ fpc = "overload"
    /\ fpc' = AfterException(tries)
    /\ UNCHANGED <<tries, gets, overloads, resp, outcome, slept, issued, gaveUp, owner>>
    /\ UNCHANGED rowVars
    /\ UNCHANGED fileVars
    /\ UNCHANGED pureVars

\* lines 64-65: sleep(random.uniform(10, 15)), then raise
OverloadPause ==
    /\ fpc = "overload"
    /\ \E d \in {OverloadMin, OverloadMax} : slept' = [slept EXCEPT !.overload = d]
    /\ fpc' = AfterException(tries)
    /\ UNCHANGED <<tries, gets, overloads, resp, outcome, issued, gaveUp, owner>>
    /\ UNCHANGED rowVars
    /\ UNCHANGED fileVars
    /\ UNCHANGED pureVars

\* variant: the pacing sleep sits outside the retried function, so that a
\* retry goes straight to the request
RetryUnpaced ==
    /\ fpc = "backoff"
    /\ slept' = NoSleep
    /\ tries' = tries + 1
    /\ fpc' = "agent"
    /\ resp' = NoResp
    /\ outcome' = "none"
    /\ UNCHANGED <<gets, overloads, issued, gaveUp, owner>>
    /\ UNCHANGED rowVars
    /\ UNCHANGED fileVars
    /\ UNCHANGED pureVars

\* the decorator's wait (its length is not recorded), then the next attempt
\* starts
Retry ==
    /\ fpc = "backoff"
    /\ slept' = NoSleep
    /\ tries' = tries + 1
    /\ fpc' = "pace"
    /\ resp' = NoResp
    /\ outcome' = "none"
    /\ UNCHANGED <<gets, overloads, issued, gaveUp, owner>>
    /\ UNCHANGED rowVars
    /\ UNCHANGED fileVars
    /\ UNCHANGED pureVars

(***************************************************************************)
(* process_book, applied to the rows in order by df.apply.                 *)
(***************************************************************************)
row == df[idx]

\* line 163: the test on the final URL of the direct request
DirectMarker == <<"d", "p", "/">>

\* variant: only the marker /dp/ is accepted
DirectAcceptedSlash(r) == r.status = 200 /\ Contains(r.url, DpMarker)

\* variant: the final URL is not looked at
DirectAcceptedAnyUrl(r) == r.status = 200

\* line 163
DirectAccepted(r) == r.status = 200 /\ Contains(r.url, DirectMarker)

\* lines 156-158
HasValidIdentifier(r) == Present(r.UPC) /\ is_valid_isbn(strip(r.UPC))

\* process_book returns: the value joins the column, df.apply moves on
FinishRow(link, how) ==
    /\ links' = Append(links, link)
    /\ via' = how
    /\ idx' = idx + 1
    /\ pc' = IF idx + 1 > Len(df) THEN "idle" ELSE "TryIdentifier"

\* lines 152-162: a valid identifier starts the direct request, anything else
\* goes on to the search
TryIdentifier ==
    /\ batch = "apply"
    /\ pc = "TryIdentifier"
    /\ issued' = {}
    /\ gaveUp' = {}
    /\ IF HasValidIdentifier(row)
       THEN pc' = "DirectFetch" /\ StartCall
       ELSE pc' = "TrySearch" /\ UNCHANGED fetchVars
    /\ UNCHANGED <<links, idx, via>>
    /\ UNCHANGED fileVars
    /\ UNCHANGED pureVars

\* variant: the handler at line 202 saves what there is before giving up
ProcessBookRaisesSaving ==
    /\ batch = "apply"
    /\ pc = "TryIdentifier"
    /\ batch' = "failed"
    /\ pc' = "idle"
    /\ output' = [i \in 1..Len(links) |-> [row |-> df[i], Amazon_Link |-> links[i]]]
    /\ writes' = writes + 1
    /\ UNCHANGED <<df, links, idx, via, issued, gaveUp>>
    /\ UNCHANGED fetchVars
    /\ UNCHANGED pureVars

\* lines 152-153 raising (a column is missing, the title cannot be printed):
\* nothing in process_book catches it, df.apply passes it on to line 202
ProcessBookRaises ==
    /\ batch = "apply"
    /\ pc = "TryIdentifier"
    /\ batch' = "failed"
    /\ pc' = "idle"
    /\ UNCHANGED <<df, output, writes, links, idx, via, issued, gaveUp>>
    /\ UNCHANGED fetchVars
    /\ UNCHANGED pureVars

\* lines 163-166: make_request returned to the direct attempt
DirectReturn ==
    /\ pc = "DirectFetch"
    /\ fpc = "returned"
    /\ IF DirectAccepted(resp)
       THEN FinishRow(DirectUrl(row), "direct")
       ELSE pc' = "TrySearch" /\ UNCHANGED <<links, idx, via>>
    /\ EndCall
    /\ UNCHANGED <<issued, gaveUp>>
    /\ UNCHANGED fileVars
    /\ UNCHANGED pureVars

\* lines 167-168: make_request raised in the direct attempt
DirectRaise ==
    /\ pc = "DirectFetch"
    /\ fpc = "raised"
    /\ gaveUp' = gaveUp \cup {"direct"}
    /\ pc' = "TrySearch"
    /\ EndCall
    /\ UNCHANGED <<links, idx, via, issued>>
    /\ UNCHANGED fileVars
    /\ UNCHANGED pureVars

\* variant: the search request is started and the row returns at once with
\* the search URL, the next row beginning while the request runs
TrySearchDetached ==
    /\ pc = "TrySearch"
    /\ IF create_search_url(row) # <<>>
       THEN FinishRow(create_search_url(row), "degraded") /\ StartCall
       ELSE FinishRow(<<>>, "empty") /\ UNCHANGED fetchVars
    /\ UNCHANGED <<issued, gaveUp>>
    /\ UNCHANGED fileVars
    /\ UNCHANGED pureVars

\* lines 171-174 and 99-101: build the search URL; none gives the empty link
TrySearch ==
    /\ pc = "TrySearch"
    /\ IF create_search_url(row) # <<>>
       THEN pc' = "SearchFetch" /\ StartCall /\ UNCHANGED <<links, idx, via>>
       ELSE FinishRow(<<>>, "empty") /\ UNCHANGED fetchVars
    /\ UNCHANGED <<issued, gaveUp>>
    /\ UNCHANGED fileVars
    /\ UNCHANGED pureVars

\* variant: a page without a product link gives the empty link
SearchResultEmptyOnMiss(r, search_url) ==
    IF r.status # 200 THEN search_url
    ELSE ExtractFrom(r.body)

\* lines 102-129: the value get_first_product_link returns for a response
SearchResult(r, search_url) ==
    IF r.status # 200 THEN search_url
    ELSE IF ExtractFrom(r.body) # <<>> THEN ExtractFrom(r.body)
    ELSE search_url

\* lines 102-129: make_request returned to get_first_product_link
SearchReturn ==
    /\ pc = "SearchFetch"
    /\ fpc = "returned"
    /\ LET link == SearchResult(resp, create_search_url(row)) IN
         FinishRow(link, IF link = create_search_url(row) THEN "degraded" ELSE "product")
    /\ EndCall
    /\ UNCHANGED <<issued, gaveUp>>
    /\ UNCHANGED fileVars
    /\ UNCHANGED pureVars

\* variant: get_first_product_link without its try/except
SearchRaisePropagates ==
    /\ pc = "SearchFetch"
    /\ fpc = "raised"
    /\ gaveUp' = gaveUp \cup {"search"}
    /\ batch' = "failed"
    /\ pc' = "idle"
    /\ EndCall
    /\ UNCHANGED <<df, output, writes, links, idx, via, issued>>
    /\ UNCHANGED pureVars

\* variant: the handler at line 131 returns the empty link
SearchRaiseEmpty ==
    /\ pc = "SearchFetch"
    /\ fpc = "raised"
    /\ gaveUp' = gaveUp \cup {"search"}
    /\ FinishRow(<<>>, "empty")
    /\ EndCall
    /\ UNCHANGED issued
    /\ UNCHANGED fileVars
    /\ UNCHANGED pureVars

\* lines 131-133: make_request raised in get_first_product_link
SearchRaise ==
    /\ pc = "SearchFetch"
    /\ fpc = "raised"
    /\ gaveUp' = gaveUp \cup {"search"}
    /\ FinishRow(create_search_url(row), "degraded")
    /\ EndCall
    /\ UNCHANGED issued
    /\ UNCHANGED fileVars
    /\ UNCHANGED pureVars

(***************************************************************************)
(* process_books_csv.                                                      *)
(***************************************************************************)
\* lines 139-146: the table is read
ReadCsv ==
    /\ batch = "start"
    /\ \E t \in [1..NumRecords -> Rows] : df' = t
    /\ batch' = "loaded"
    /\ UNCHANGED <<links, idx, pc, via, issued, gaveUp, output, writes>>
    /\ UNCHANGED fetchVars
    /\ UNCHANGED pureVars

\* lines 149 and 30-45: the session is created with a random agent string and
\* df.apply starts with the first row
GetSession ==
    /\ batch = "loaded"
    /\ batch' = "apply"
    /\ pc' = "TryIdentifier"
    /\ UNCHANGED <<df, links, idx, via, issued, gaveUp, output, writes>>
    /\ UNCHANGED fetchVars
    /\ UNCHANGED pureVars

\* lines 33-36 raising: UserAgent() produces no agent string; get_session
\* catches nothing and the exception is caught at line 202
GetSessionRaises ==
    /\ batch = "loaded"
    /\ batch' = "failed"
    /\ UNCHANGED <<df, output, writes, issued, gaveUp>>
    /\ UNCHANGED rowVars
    /\ UNCHANGED fetchVars
    /\ UNCHANGED pureVars

\* lines 141-144 raising (no such file): caught at line 202
ReadCsvRaises ==
    /\ batch = "start"
    /\ batch' = "failed"
    /\ UNCHANGED <<df, output, writes, issued, gaveUp>>
    /\ UNCHANGED rowVars
    /\ UNCHANGED fetchVars
    /\ UNCHANGED pureVars

\* variant: the cleaned title is written back into the title column
WithLinksCleaned ==
    [i \in 1..Len(df) |->
        [row |-> [df[i] EXCEPT !.Title = clean_text(df[i].Title)], Amazon_Link |-> links[i]]]

\* the table with the column Amazon_Link
WithLinks == [i \in 1..Len(df) |-> [row |-> df[i], Amazon_Link |-> links[i]]]

\* lines 178-182: df.apply is through, the column is set and the file written
SaveOutput ==
    /\ batch = "apply"
    /\ pc = "idle"
    /\ idx > Len(df)
    /\ output' = WithLinks
    /\ writes' = writes + 1
    /\ batch' = "saved"
    /\ UNCHANGED <<df, issued, gaveUp>>
    /\ UNCHANGED rowVars
    /\ UNCHANGED fetchVars
    /\ UNCHANGED pureVars

\* line 182 raising (the output file cannot be opened): caught at line 202
SaveOutputRaises ==
    /\ batch = "apply"
    /\ pc = "idle"
    /\ idx > Len(df)
    /\ batch' = "failed"
    /\ UNCHANGED <<df, output, writes, issued, gaveUp>>
    /\ UNCHANGED rowVars
    /\ UNCHANGED fetchVars
    /\ UNCHANGED pureVars

Next ==
    \/ ReadCsv
    \/ ReadCsvRaises
    \/ GetSession
    \/ GetSessionRaises
    \/ TryIdentifier
    \/ ProcessBookRaises
    \/ Pace
    \/ UpdateAgent
    \/ UpdateAgentRaises
    \/ Get
    \/ GetRaises
    \/ OverloadPause
    \/ Retry
    \/ DirectReturn
    \/ DirectRaise
    \/ TrySearch
    \/ SearchReturn
    \/ SearchRaise
    \/ SaveOutput
    \/ SaveOutputRaises

Spec == Init /\ [][Next]_vars

TypeOK ==
    /\ batch \in {"start", "loaded", "apply", "saved", "failed"}
    /\ pc \in {"idle", "TryIdentifier", "DirectFetch", "TrySearch", "SearchFetch"}
    /\ fpc \in {"idle", "pace", "agent", "get", "overload", "backoff", "returned", "raised"}
    /\ tries \in 0..MaxTries
    /\ gets \in 0..MaxTries
    /\ overloads \in 0..gets
    /\ idx \in 1..(NumRecords + 1)
    /\ Len(links) = idx - 1
    /\ writes \in 0..1
    /\ owner \in {0, idx}
    /\ call = NoCall
    /\ ret = NoRet

(***************************************************************************)
(* is_valid_isbn called on its own, on codes of up to MaxIsbnLen digits    *)
(* with at most one of them replaced by a letter and at most one hyphen or *)
(* blank put in.                                                           *)
(***************************************************************************)
\* the state of process_books_csv before it is called
BatchIdle ==
    /\ batch = "start"
    /\ df = <<>>
    /\ links = <<>>
    /\ idx = 1
    /\ pc = "idle"
    /\ fpc = "idle"
    /\ tries = 0
    /\ gets = 0
    /\ overloads = 0
    /\ resp = NoResp
    /\ outcome = "none"
    /\ slept = NoSleep
    /\ owner = 0
    /\ issued = {}
    /\ gaveUp = {}
    /\ via = "none"
    /\ output = <<>>
    /\ writes = 0

DigitRun(n) == [i \in 1..n |-> "7"]

\* s with position p holding c; s itself for p = 0
WithChar(s, p, c) == IF p = 0 THEN s ELSE [s EXCEPT ![p] = c]

\* s with sep put in before position q; s itself for q = 0
WithSeparator(s, q, sep) ==
    IF q = 0 THEN s ELSE SubSeq(s, 1, q - 1) \o <<sep>> \o SubSeq(s, q, Len(s))

IsbnInputs ==
    UNION { { WithSeparator(WithChar(DigitRun(n), p, c), q, sep) :
                p \in 0..n, c \in {"X", "x", "A"}, q \in 0..(n + 1), sep \in {"-", " "} } :
            n \in 0..MaxIsbnLen }

InitIsbn ==
    /\ BatchIdle
    /\ \E s \in IsbnInputs : call = [fn |-> "is_valid_isbn", arg |-> s]
    /\ ret = NoRet

\* lines 20-27
ApplyIsValidIsbn ==
    /\ call.fn = "is_valid_isbn"
    /\ ~ret.done
    /\ ret' = [done |-> TRUE, value |-> is_valid_isbn(call.arg)]
    /\ UNCHANGED call
    /\ UNCHANGED batchVars

NextIsbn == ApplyIsValidIsbn

SpecIsbn == InitIsbn /\ [][NextIsbn]_vars

(***************************************************************************)
(* create_search_url called on its own.                                    *)
(***************************************************************************)
AuthorText == <<"X", "y">>
YearText == <<"1", "9", "9", "7">>
Ed4thBlank == <<" ", "4", "t", "h", " ">>
EdThe == <<"t", "h", "e">>

QueryRows ==
    { Row(t, a, y, e, NaN) :
        t \in {NaN, <<>>, Blank, TitleText},
        a \in {NaN, Blank, AuthorText},
        y \in {NaN, Blank, YearText},
        e \in {NaN, Blank, Ed4th, Ed2nd, Ed4thBlank, EdThe} }

InitQuery ==
    /\ BatchIdle
    /\ \E r \in QueryRows : call = [fn |-> "create_search_url", arg |-> r]
    /\ ret = NoRet

\* lines 70-93
ApplyCreateSearchUrl ==
    /\ call.fn = "create_search_url"
    /\ ~ret.done
    /\ ret' = [done |-> TRUE, value |-> create_search_url(call.arg)]
    /\ UNCHANGED call
    /\ UNCHANGED batchVars

NextQuery == ApplyCreateSearchUrl

SpecQuery == InitQuery /\ [][NextQuery]_vars

(***************************************************************************)
(* The selector loop of get_first_product_link run on its own, on result   *)
(* pages given by the links each of the selectors yields.                   *)
(***************************************************************************)
\* the selectors of lines 109-115
NumSelectors == 5

HrefLists ==
    { <<>>,
      <<OtherHref>>,
      <<ShortIdHref>>,
      <<ProductHref>>,
      <<GpHref>>,
      <<OtherHref, ProductHref>>,
      <<ShortIdHref, GpHref>>,
      <<ProductHref, GpHref>> }

InitExtract ==
    /\ BatchIdle
    /\ \E b \in [1..NumSelectors -> HrefLists] :
         call = [fn |-> "get_first_product_link", arg |-> b]
    /\ ret = NoRet

\* lines 117-126; the value is <<>> when the loops end without a link
ApplyExtract ==
    /\ call.fn = "get_first_product_link"
    /\ ~ret.done
    /\ ret' = [done |-> TRUE, value |-> ExtractFrom(call.arg)]
    /\ UNCHANGED call
    /\ UNCHANGED batchVars

NextExtract == ApplyExtract

SpecExtract == InitExtract /\ [][NextExtract]_vars

(***************************************************************************)
(* Properties.                                                             *)
(***************************************************************************)
\* a row has just been finished and the next one is not begun: issued,
\* gaveUp and via speak of row idx - 1
RowDone == idx > 1 /\ pc \in {"idle", "TryIdentifier"}

LastRow == df[idx - 1]

LastLink == links[idx - 1]

\* a step of make_request that performs session.get
IsGet == gets' = gets + 1

\* C1: one call of make_request makes at most 5 attempts and at most 5 GETs;
\* after a failed attempt the decorator waits for another one only while
\* fewer than 5 were made, and the call raises to its caller exactly when the
\* 5th attempt has failed.
C1_AtMostFiveAttempts ==
    /\ tries <= 5
    /\ gets <= tries
    /\ fpc = "backoff" => tries < 5 /\ outcome \in {"exception", "overload"}
    /\ fpc = "raised" => tries = 5 /\ outcome \in {"exception", "overload"}
    /\ (tries = 5 /\ outcome \in {"exception", "overload"}) => fpc \in {"overload", "raised"}

C1_Witness == fpc = "raised" /\ tries = 5 /\ gets = 5 /\ overloads = 2

\* C2: the attempt that receives a response other than 503 is the last one:
\* the call returns that very response in the same step, without a further
\* attempt, and it returns in no other way; a call that returns after k
\* attempts has seen k - 1 failed attempts before.
C2_ReturnsFirstGoodResponse ==
    [][/\ (IsGet /\ resp'.status \notin {0, 503})
            => fpc' = "returned" /\ tries' = tries /\ resp' \in Responses(Kind)
       /\ (fpc # "returned" /\ fpc' = "returned")
            => IsGet /\ resp'.status \notin {0, 503} /\ gets' <= tries /\ tries \in 1..5
       /\ (fpc = "backoff" /\ fpc' # fpc) => tries' = tries + 1 /\ gets' = gets
       /\ (fpc = "returned" /\ fpc' # fpc) => fpc' = "idle"]_vars

\* the sequence 503, 503, 200: returned at the third attempt, after two retries
C2_Witness ==
    /\ fpc = "returned"
    /\ resp.status = 200
    /\ tries = 3
    /\ gets = 3
    /\ overloads = 2

\* C3: every session.get, of a first attempt or of a retry, for the direct
\* URL or for the search URL, comes after a pacing sleep of 2 to 7 seconds
\* made in the same attempt.
C3_GetIsPaced ==
    [][IsGet => slept.pace \in 2..7 /\ fpc = "get"]_vars

\* the GET of a retry of the search request, after a direct request
C3_Witness ==
    /\ pc = "SearchFetch"
    /\ "direct" \in issued
    /\ gets = 2
    /\ tries = 2
    /\ slept.pace = 7

\* C4: when the attempt that ends got a 503, the sleep of 10 to 15 seconds
\* has happened before the next attempt starts, and before the call raises.
C4_OverloadPauseBeforeRetry ==
    [][/\ (tries' = tries + 1 /\ tries >= 1 /\ outcome = "overload")
            => slept.overload \in 10..15
       /\ (fpc' = "raised" /\ outcome' = "overload") => slept'.overload \in 10..15
       /\ (IsGet /\ resp'.status = 503) => fpc' = "overload" /\ tries' = tries]_vars

C4_Witness ==
    /\ fpc = "backoff"
    /\ outcome = "overload"
    /\ resp.status = 503
    /\ slept.overload = 15
    /\ slept.pace = 2

\* a product-path marker: /dp/ or /gp/product/
HasProductMarker(url) == Contains(url, DpMarker) \/ Contains(url, GpMarker)

\* the row at hand is finished by this step with the direct link, and no
\* search request was sent for it
AcceptsDirectLink ==
    /\ links' = Append(links, <<ProductPrefix>> \o strip(row.UPC))
    /\ idx' = idx + 1
    /\ via' = "direct"
    /\ "search" \notin issued'
    /\ fpc' = "idle"

\* C5 as stated: a direct fetch that returns 200 with a final URL holding a
\* product-path marker (/dp/ or /gp/product/) finishes the row with the
\* direct link and without a search request.
C5_AcceptsAnyProductMarker ==
    [][(pc = "DirectFetch" /\ fpc = "returned" /\ resp.status = 200
          /\ HasProductMarker(resp.url)) => AcceptsDirectLink]_vars

\* C5 as amended: a direct fetch that returns 200 with a final URL holding
\* the text dp/ finishes the row with the direct link and without a search
\* request.
C5_AcceptsDpSubstring ==
    [][(pc = "DirectFetch" /\ fpc = "returned" /\ resp.status = 200
          /\ Contains(resp.url, <<"d", "p", "/">>)) => AcceptsDirectLink]_vars

C5_Witness ==
    /\ RowDone
    /\ via = "direct"
    /\ HasValidIdentifier(LastRow)
    /\ LastLink = DirectUrl(LastRow)
    /\ issued = {"direct"}

\* the parts of C6 that do not depend on the final URL
FallsBackToSearch ==
    /\ (pc = "TryIdentifier" /\ pc' # pc /\ batch' = "apply" /\ ~HasValidIdentifier(row))
          => pc' = "TrySearch" /\ issued' = {} /\ fpc' = "idle"
    /\ (pc \in {"TrySearch", "SearchFetch"} /\ ~HasValidIdentifier(row))
          => "direct" \notin issued
    /\ (pc = "DirectFetch" /\ fpc = "raised") => pc' = "TrySearch" /\ links' = links
    /\ (pc = "DirectFetch" /\ fpc = "returned" /\ resp.status # 200)
          => pc' = "TrySearch" /\ links' = links
    /\ (pc \in {"TrySearch", "SearchFetch"} /\ links' # links)
          => /\ via' \in {"empty", "degraded", "product"}
             /\ links' = Append(links, IF via' = "empty" THEN <<>>
                                       ELSE IF via' = "degraded" THEN create_search_url(row)
                                       ELSE ExtractFrom(resp.body))

\* C6 as stated: an absent or invalid identifier (no direct request then), a
\* direct fetch that raised, a status other than 200, or a 200 whose final URL
\* holds no product-path marker sends the row to TrySearch, and the link of
\* a row that went through TrySearch comes from the search path.
C6_FallbackOnMissingMarker ==
    [][/\ FallsBackToSearch
       /\ (pc = "DirectFetch" /\ fpc = "returned" /\ ~HasProductMarker(resp.url))
             => pc' = "TrySearch" /\ links' = links]_vars

\* C6 as amended: the same, for a 200 whose final URL does not hold the text
\* dp/.
C6_FallbackOnMissingDpSubstring ==
    [][/\ FallsBackToSearch
       /\ (pc = "DirectFetch" /\ fpc = "returned" /\ ~Contains(resp.url, <<"d", "p", "/">>))
             => pc' = "TrySearch" /\ links' = links]_vars

\* a row whose direct request returned 200 without dp/ and whose link then
\* came from the search results
C6_Witness ==
    /\ RowDone
    /\ via = "product"
    /\ issued = {"direct", "search"}
    /\ gaveUp = {}
    /\ LastLink # DirectUrl(LastRow)

BlankText(v) == isna(v) \/ \A i \in 1..Len(v) : v[i] \in Whitespace

\* title, author and year null, empty or blank, and the edition absent or
\* not ending in th
NoUsableFields(r) ==
    /\ BlankText(r.Title)
    /\ BlankText(r.Author)
    /\ BlankText(r.Yr)
    /\ \/ BlankText(r.Ed)
       \/ ~endswith(lower(strip(r.Ed)), <<"t", "h">>)

\* C7: in TrySearch a row for which no query can be built is finished with
\* the empty link and without a search request; a finished row with no
\* identifier and no usable field has the empty link and no request at all.
C7_NoQueryGivesEmptyLink ==
    [][/\ (pc = "TrySearch" /\ NoUsableFields(row))
            => /\ links' = Append(links, <<>>)
               /\ idx' = idx + 1
               /\ "search" \notin issued'
               /\ fpc' = "idle"
       /\ (RowDone /\ NoUsableFields(LastRow) /\ isna(LastRow.UPC))
            => LastLink = <<>> /\ issued = {}]_vars

\* a row with a valid identifier whose direct request failed and whose only
\* fields are a blank title and the edition 2nd
C7_Witness ==
    /\ RowDone
    /\ NoUsableFields(LastRow)
    /\ LastRow.Ed = Ed2nd
    /\ via = "empty"
    /\ LastLink = <<>>
    /\ issued = {"direct"}

\* C8 as stated: no step taken while a row is being processed aborts the
\* batch; whatever is raised is caught for that row.
C8_NoRowAbortsBatch ==
    [][(batch = "apply" /\ pc # "idle") => batch' = "apply"]_vars

\* C9: a make_request call that raised does not abort the batch: raised in
\* the direct attempt, the row goes on to TrySearch; raised in the search, the
\* row is finished and df.apply is at the next row (or through).
C9_FetchFailureNotFatal ==
    [][fpc = "raised"
         => /\ batch' = "apply"
            /\ pc = "DirectFetch" => pc' = "TrySearch" /\ idx' = idx /\ links' = links
            /\ pc = "SearchFetch"
                 => /\ Len(links') = idx
                    /\ idx' = idx + 1
                    /\ pc' = IF idx < Len(df) THEN "TryIdentifier" ELSE "idle"]_vars

\* both requests of the first row failed for good and the second row is up
C9_Witness ==
    /\ batch = "apply"
    /\ pc = "TryIdentifier"
    /\ idx = 2
    /\ gaveUp = {"direct", "search"}

IsFetchStep == fpc # "idle" /\ fpc' # "idle" /\ (fpc' # fpc \/ slept' # slept)

\* C11: processing is sequential: a make_request call is started only while
\* none is running; every sleep and request of a call is made for the row
\* df.apply is at, with every earlier row finished and that row not; and
\* df.apply moves to the next row only with the row's link recorded and no
\* call running.
C11_StrictlySequential ==
    [][/\ fpc # "idle"
            => owner = idx /\ Len(links) = idx - 1 /\ pc \in {"DirectFetch", "SearchFetch"}
       /\ (IsFetchStep \/ IsGet)
            => owner = idx /\ owner' = owner /\ idx' = idx /\ links' = links
       /\ (owner' # owner /\ owner' # 0) => owner = 0 /\ fpc = "idle" /\ owner' = idx
       /\ idx' # idx
            => /\ idx' = idx + 1
               /\ Len(links') = idx
               /\ fpc' = "idle"
               /\ owner' = 0]_vars

\* a retry of the search request of the second row, the first row finished
C11_Witness ==
    /\ idx = 2
    /\ Len(links) = 1
    /\ pc = "SearchFetch"
    /\ owner = 2
    /\ tries = 2
    /\ fpc = "get"
    /\ issued = {"direct", "search"}

\* C12: the table read is never changed by the processing, and the file a
\* completed batch writes has one row per input row, in input order, each
\* with the input row's columns as they were read plus one link value, which
\* is what process_book returned for that row.
C12_OutputIsInputPlusLinks ==
    [][/\ batch # "start" => df' = df
       /\ links' # links => SubSeq(links', 1, Len(links)) = links /\ Len(links') = Len(links) + 1
       /\ batch' = "saved"
            => /\ Len(output') = Len(df)
               /\ Len(links') = Len(df)
               /\ \A i \in 1..Len(df) :
                    /\ DOMAIN output'[i] = {"row", "Amazon_Link"}
                    /\ output'[i].row = df[i]
                    /\ output'[i].Amazon_Link = links'[i]]_vars

\* a written table whose first row has the empty link and whose second a link
C12_Witness ==
    /\ batch = "saved"
    /\ Len(output) = Len(df)
    /\ output[1].Amazon_Link = <<>>
    /\ output[2].Amazon_Link # <<>>
    /\ output[2].row.Title = TitleText

IsCodeChar(c) == c # "-" /\ c \notin Whitespace

\* 10 characters, nine digits and a digit or X, or 13 digits, once hyphens
\* and whitespace are taken out
ValidIsbnShape(code) ==
    LET s == SelectSeq(code, IsCodeChar) IN
    \/ /\ Len(s) = 10
       /\ \A i \in 1..9 : s[i] \in Digits
       /\ s[10] \in Digits \cup {"X"}
    \/ /\ Len(s) = 13
       /\ \A i \in 1..13 : s[i] \in Digits

\* C13: is_valid_isbn returns true exactly for the codes that, with hyphens
\* and whitespace removed, are nine digits and a digit or X, or 13 digits.
C13_ValidIsbnExactly ==
    (call.fn = "is_valid_isbn" /\ ret.done) => (ret.value <=> ValidIsbnShape(call.arg))

\* nine digits, a hyphen and the check character X are accepted
C13_Witness ==
    /\ call.fn = "is_valid_isbn"
    /\ ret.done
    /\ ret.value
    /\ Len(call.arg) = 11
    /\ call.arg[11] = "X"
    /\ call.arg[2] = "-"

\* the parts the query is to hold, in order: cleaned title, cleaned author,
\* year, and the edition phrase when the trimmed edition ends in th
ExpectedParts(r) ==
    LET ordinal == ~BlankText(r.Ed) /\ endswith(lower(strip(r.Ed)), <<"t", "h">>)
        slots == << [use |-> ~BlankText(r.Title), text |-> clean_text(r.Title)],
                    [use |-> ~BlankText(r.Author), text |-> clean_text(r.Author)],
                    [use |-> ~BlankText(r.Yr), text |-> r.Yr],
                    [use |-> ordinal,
                     text |-> IF ordinal THEN strip(r.Ed) \o <<" ", "e", "d", "i", "t", "i", "o", "n">>
                              ELSE <<>>] >>
        used == {i \in 1..4 : slots[i].use}
        \* the k-th used slot
        nth(k) == CHOOSE i \in used : Cardinality({j \in used : j < i}) = k - 1
    IN  [k \in 1..Cardinality(used) |-> slots[nth(k)].text]

\* C14: create_search_url returns the search URL of the expected parts
\* joined in their order, and the empty text exactly when there is no part.
C14_QueryPartsInOrder ==
    (call.fn = "create_search_url" /\ ret.done)
        => /\ (ret.value = <<>>) <=> (ExpectedParts(call.arg) = <<>>)
           /\ ExpectedParts(call.arg) # <<>>
                => ret.value = <<SearchPrefix>> \o quote(Join(ExpectedParts(call.arg)))
                                 \o <<SearchSuffix>>

\* title, author, year and the edition 4Th all join the query
C14_Witness ==
    /\ call.fn = "create_search_url"
    /\ ret.done
    /\ call.arg = Row(TitleText, AuthorText, YearText, Ed4th, NaN)
    /\ Len(ExpectedParts(call.arg)) = 4
    /\ ret.value # <<>>

AlphaNum == Digits \cup UpperCase \cup {LowerChar(c) : c \in UpperCase}

IsProductLink(link) == link # <<>> /\ link[1] = ProductPrefix

\* https://www.amazon.com/dp/ followed by exactly 10 alphanumeric characters
IsCanonical(link) ==
    /\ Len(link) = 11
    /\ link[1] = ProductPrefix
    /\ \A i \in 2..11 : link[i] \in AlphaNum

\* C15 as stated: every product link recorded for a row, from the direct
\* path or from the search results, is https://www.amazon.com/dp/ followed by
\* exactly 10 alphanumeric characters.
C15_ProductLinksCanonical ==
    \A i \in 1..Len(links) : IsProductLink(links[i]) => IsCanonical(links[i])

Min(S) == CHOOSE i \in S : \A j \in S : i <= j

RECURSIVE Flatten(_)
Flatten(lists) == IF lists = <<>> THEN <<>> ELSE Head(lists) \o Flatten(Tail(lists))

\* C16 as stated: the first selector that yields any link decides: the result
\* is the link of the first acceptable href among that selector's links, and
\* none when it has no acceptable href, whatever later selectors yield.
C16_FirstYieldingPatternWins ==
    (call.fn = "get_first_product_link" /\ ret.done)
        => LET yielding == {k \in 1..Len(call.arg) : call.arg[k] # <<>>} IN
           ret.value = IF yielding = {} THEN <<>> ELSE FirstLink(call.arg[Min(yielding)])

\* C16 as amended: the result is the link of the first acceptable href among
\* the links of all selectors, taken selector by selector in their order
\* and in document order within a selector; none only when no selector
\* yields an acceptable href.
C16_FirstAcceptableHrefWins ==
    (call.fn = "get_first_product_link" /\ ret.done)
        => LET all == Flatten(call.arg)
               hits == {i \in 1..Len(all) : LinkOf(all[i]) # <<>>}
           IN  ret.value = IF hits = {} THEN <<>> ELSE LinkOf(all[Min(hits)])

\* the first selector yields a link without product id, the third a product
C16_Witness ==
    /\ call.fn = "get_first_product_link"
    /\ ret.done
    /\ call.arg[1] = <<ShortIdHref>>
    /\ call.arg[2] = <<>>
    /\ call.arg[3] = <<GpHref>>
    /\ ret.value = <<ProductPrefix, "B", "0", "0", "0", "0", "0", "0", "0", "0", "2">>

\* no link any selector yields has an acceptable product href
NoAcceptableHref(body) ==
    \A k \in 1..Len(body) : \A j \in 1..Len(body[k]) : LinkOf(body[k][j]) = <<>>

\* C17: when the search request returns a response that is not 200, or a
\* page none of whose links has an acceptable product href, the link recorded
\* for the row is the search URL itself: not empty, not a product link.
C17_DegradesToSearchUrl ==
    [][(pc = "SearchFetch" /\ fpc = "returned"
          /\ (resp.status # 200 \/ NoAcceptableHref(resp.body)))
         => /\ links' = Append(links, create_search_url(row))
            /\ links'[idx] # <<>>
            /\ links'[idx][1] = SearchPrefix
            /\ ~IsProductLink(links'[idx])
            /\ via' = "degraded"]_vars

\* a row whose search request was answered and whose link is its search URL
C17_Witness ==
    /\ RowDone
    /\ via = "degraded"
    /\ "search" \in issued
    /\ "search" \notin gaveUp
    /\ LastLink = create_search_url(LastRow)
    /\ LastLink[1] = SearchPrefix

\* C18 as stated: when the make_request call of the search raises, all
\* attempts used up, the link recorded for the row is empty.
C18_EmptyOnSearchFailure ==
    [][(pc = "SearchFetch" /\ fpc = "raised") => links' = Append(links, <<>>)]_vars

\* C18 as amended: when the make_request call of the search raises, the link
\* recorded for the row is the search URL.
C18_SearchUrlOnSearchFailure ==
    [][(pc = "SearchFetch" /\ fpc = "raised")
         => /\ links' = Append(links, create_search_url(row))
            /\ links'[idx] # <<>>
            /\ links'[idx][1] = SearchPrefix]_vars

\* a row whose search request failed five times and whose link is its search URL
C18_Witness ==
    /\ RowDone
    /\ "search" \in gaveUp
    /\ LastLink # <<>>
    /\ LastLink = create_search_url(LastRow)

\* C19 as stated: when no agent string can be produced, for the session or
\* before a request, the batch is not aborted and the request is still made.
C19_IdentityFailureHarmless ==
    [][/\ batch = "loaded" => batch' = "apply"
       /\ fpc = "agent" => fpc' = "get"]_vars

\* C20: a response with a status other than 503 ends the call in the step
\* that receives it, without a further attempt and without the longer sleep;
\* a further attempt follows only an exception or a 503; the direct attempt
\* goes on to TrySearch for a status other than 200, and the search gives the
\* search URL for it.
C20_OnlyExceptionAnd503Retry ==
    [][/\ (IsGet /\ resp'.status \in {200, 404, 429, 500})
            => fpc' = "returned" /\ tries' = tries /\ slept' = slept /\ slept.overload = 0
       /\ (tries >= 1 /\ tries' = tries + 1)
            => \/ outcome = "exception" /\ resp.status = 0
               \/ outcome = "overload" /\ resp.status = 503
       /\ fpc = "overload" => resp.status = 503
       /\ (fpc = "returned" /\ fpc' # fpc) => fpc' = "idle" /\ tries' = 0
       /\ (pc = "DirectFetch" /\ fpc = "returned" /\ resp.status # 200)
            => pc' = "TrySearch" /\ links' = links
       /\ (pc = "SearchFetch" /\ fpc = "returned" /\ resp.status # 200)
            => links' = Append(links, create_search_url(row)) /\ via' = "degraded"]_vars

\* a 429 answers the first attempt of a search request and is returned
C20_Witness ==
    /\ pc = "SearchFetch"
    /\ fpc = "returned"
    /\ resp.status = 429
    /\ tries = 1
    /\ gets = 1
    /\ slept.overload = 0

====
